---- MODULE Spec2Model ----
(***************************************************************************)
(* Model of the all-occurrences text edit of pdf-cli:                      *)
(*   src/src/app/services.py       _edit_text_all_occurrences              *)
(*   src/src/core/engine_manager.py EngineManager, EngineResult,           *)
(*                                  create_audit_log                       *)
(*   src/src/core/font_manager.py  FontManager, FontRequirement            *)
(*   src/src/app/pdf_repo.py       PDFRepository                           *)
(*                                                                         *)
(* Text is a sequence of one-character strings.  Coordinates and bounding  *)
(* box sizes are kept in half points (Pt(n) is n points), so that the      *)
(* rounding done when a run id is built is not the identity.  Font sizes   *)
(* are whole points, as TextObject.font_size is int(span size).            *)
(***************************************************************************)
EXTENDS Integers, Sequences, FiniteSets, TLC

\* ------------------------------------------------------------------------
\* Bounds of the model
\* ------------------------------------------------------------------------
\* Largest number of text runs in the input document.
MaxRuns == 2
\* Largest number of redact-and-reinsert iterations of Strategy A's loop.
MaxEdits == 3
\* Largest number of add_requirement calls in the tracker specification.
MaxRecords == 3
\* Largest number of text runs in the post-edit snapshot given to
\* detect_font_fallback in the detection specification.
MaxCandidates == 2
\* Largest number of pages of the document given to delete_pages.
MaxPages == 3
\* Largest number of page numbers in one delete_pages request.
MaxRequested == 2
\* Largest number of failures of the environment (a library call or a file
\* operation that raises) in one operation.
MaxFaults == 1

\* ------------------------------------------------------------------------
\* Text
\* ------------------------------------------------------------------------
Pt(n) == 2 * n

Abs(n) == IF n < 0 THEN -n ELSE n

\* Python: s in t
Contains(t, s) ==
    \E i \in 0..(Len(t) - Len(s)) : SubSeq(t, i + 1, i + Len(s)) = s

\* Python: t.replace(s, r, 1) for a non-empty s
ReplaceFirst(t, s, r) ==
    IF ~Contains(t, s) THEN t
    ELSE LET i == CHOOSE k \in 0..(Len(t) - Len(s)) :
                     /\ SubSeq(t, k + 1, k + Len(s)) = s
                     /\ \A j \in 0..(k - 1) : SubSeq(t, j + 1, j + Len(s)) # s
         IN  SubSeq(t, 1, i) \o r \o SubSeq(t, i + Len(s) + 1, Len(t))

\* Python: round(v) of a value v2 given in half points (round half to even)
Round(v2) ==
    IF v2 % 2 = 0 THEN v2 \div 2
    ELSE LET f == (v2 - 1) \div 2
         IN  IF f % 2 = 0 THEN f ELSE f + 1

\* ------------------------------------------------------------------------
\* Text runs (TextObject) as PDFRepository.extract_text_objects builds them
\* ------------------------------------------------------------------------
\* A span of a page: what the PDF holds, before an id is given to it.
\* literal: the text stands in the page's content stream as a literal string
\* followed by a text-showing operator, the form Strategy B's patterns find.
Span(page, x, y, w, h, font, size, content, literal) ==
    [page |-> page, x |-> x, y |-> y, width |-> w, height |-> h,
     font_name |-> font, font_size |-> size, content |-> content,
     literal |-> literal]

pos_key(s) ==
    <<s.page, Round(s.x), Round(s.y), Round(s.width), Round(s.height)>>

\* position_counter[pos_key] after the spans 1..i of the document: the counter
\* is reset for every page, and the page is part of the key.
position_index(spans, i) ==
    Cardinality({j \in 1..i : pos_key(spans[j]) = pos_key(spans[i])})

stable_id(spans, i) == <<pos_key(spans[i]), position_index(spans, i)>>

extract_text_objects(spans) ==
    [i \in 1..Len(spans) |->
        [id |-> stable_id(spans, i),
         page |-> spans[i].page, content |-> spans[i].content,
         x |-> spans[i].x, y |-> spans[i].y,
         width |-> spans[i].width, height |-> spans[i].height,
         font_name |-> spans[i].font_name, font_size |-> spans[i].font_size]]

\* ------------------------------------------------------------------------
\* EngineManager.detect_font_fallback
\* ------------------------------------------------------------------------
POSITION_X_TOLERANCE == 1
POSITION_Y_TOLERANCE == 3
SIZE_TOLERANCE == 5
MIN_SCORE == 30

NoText == <<"-none-">>

\* expected_modified_content; NoText stands for None
expected_modified_content(original_content, search_term, new_content) ==
    IF search_term # <<>> /\ new_content # <<>>
       /\ Contains(original_content, search_term)
    THEN IF search_term # original_content
         THEN ReplaceFirst(original_content, search_term, new_content)
         ELSE new_content
    ELSE NoText

\* A variant of match_score that looks at the content only.
match_score_by_content(original_obj, modified_obj, search_term, new_content) ==
    IF modified_obj.content
       = expected_modified_content(original_obj.content, search_term,
                                   new_content)
    THEN 70 ELSE 0

\* The score of one candidate; -1 when the loop continues past it.
match_score(original_obj, modified_obj, search_term, new_content) ==
    LET expected == expected_modified_content(original_obj.content,
                                              search_term, new_content)
        x_diff == Abs(modified_obj.x - original_obj.x)
        y_diff == Abs(modified_obj.y - original_obj.y)
        width_diff == Abs(modified_obj.width - original_obj.width)
        height_diff == Abs(modified_obj.height - original_obj.height)
        s_page == 10
        s_x == IF x_diff <= Pt(POSITION_X_TOLERANCE) THEN 20 ELSE 10
        s_y == IF y_diff <= Pt(POSITION_Y_TOLERANCE) THEN 15
               ELSE IF y_diff <= Pt(POSITION_Y_TOLERANCE) * 2 THEN 8
               ELSE 3
        s_size == IF width_diff <= Pt(SIZE_TOLERANCE)
                     /\ height_diff <= Pt(SIZE_TOLERANCE) THEN 10
                  ELSE IF width_diff <= Pt(SIZE_TOLERANCE) * 2
                          /\ height_diff <= Pt(SIZE_TOLERANCE) * 2 THEN 5
                  ELSE 0
        s_content ==
            IF expected # NoText
            THEN IF modified_obj.content = expected THEN 30
                 ELSE IF Contains(modified_obj.content, expected)
                         \/ Contains(expected, modified_obj.content) THEN 15
                 ELSE IF Contains(modified_obj.content, new_content) THEN 10
                 ELSE 0
            ELSE IF modified_obj.content # original_obj.content
                    /\ (search_term = <<>>
                        \/ ~Contains(modified_obj.content, search_term))
                 THEN 5
                 ELSE 0
    IN  IF modified_obj.page # original_obj.page THEN -1
        ELSE IF x_diff > Pt(POSITION_X_TOLERANCE) * 2 THEN -1
        ELSE s_page + s_x + s_y + s_size + s_content

\* A variant of best_match in which a later candidate with an equal score
\* takes the place of an earlier one.
RECURSIVE best_match_last_wins(_, _, _, _, _)
best_match_last_wins(original_obj, modified_objects, search_term, new_content, i) ==
    IF i = 0 THEN <<0, 0>>
    ELSE LET prev == best_match_last_wins(original_obj, modified_objects,
                                          search_term, new_content, i - 1)
             score == match_score(original_obj, modified_objects[i],
                                  search_term, new_content)
         IN  IF score >= prev[2] /\ score > 0 THEN <<i, score>> ELSE prev

\* A variant of best_match that stops at the first candidate.
best_match_first_only(original_obj, modified_objects, search_term, new_content, i) ==
    IF i = 0 THEN <<0, 0>>
    ELSE <<1, match_score(original_obj, modified_objects[1],
                          search_term, new_content)>>

\* The loop over modified_objects: <<index of best_match (0 for None),
\* best_score>> after the candidates 1..i.
RECURSIVE best_match(_, _, _, _, _)
best_match(original_obj, modified_objects, search_term, new_content, i) ==
    IF i = 0 THEN <<0, 0>>
    ELSE LET prev == best_match(original_obj, modified_objects,
                                search_term, new_content, i - 1)
             score == match_score(original_obj, modified_objects[i],
                                  search_term, new_content)
         IN  IF score > prev[2] THEN <<i, score>> ELSE prev

HelveticaNames == {"Helvetica", "helv"}

fallback_reason(original_font, modified_font, original_size, modified_size) ==
    IF modified_font \in HelveticaNames /\ original_font \notin HelveticaNames
    THEN "helvetica"
    ELSE IF original_font # "" /\ modified_font # original_font
    THEN "font_swap"
    ELSE IF original_size # modified_size
    THEN "size_changed"
    ELSE "None"

OrNA(name) == IF name = "" THEN "N/A" ELSE name

\* A variant of font_preserved that compares the font names only.
font_name_preserved(original_obj, best) ==
    original_obj.font_name = best.font_name

\* engine_manager.py 218-221
font_preserved(original_obj, best) ==
    /\ original_obj.font_name = best.font_name
    /\ original_obj.font_size = best.font_size

\* A variant of unverified_comparison that reports the run as preserved.
unverified_as_preserved(original_obj, best_score) ==
    [object_id |-> original_obj.id, page |-> original_obj.page,
     original_font |-> OrNA(original_obj.font_name),
     original_font_size |-> original_obj.font_size,
     final_font |-> "N/A", final_font_size |-> 0,
     font_preserved |-> TRUE, font_fallback_detected |-> FALSE,
     fallback_reason |-> "None",
     matched |-> FALSE, score |-> best_score]

\* engine_manager.py 247-261: no candidate was good enough
unverified_comparison(original_obj, best_score) ==
    [object_id |-> original_obj.id, page |-> original_obj.page,
     original_font |-> OrNA(original_obj.font_name),
     original_font_size |-> original_obj.font_size,
     final_font |-> "N/A", final_font_size |-> 0,
     font_preserved |-> FALSE, font_fallback_detected |-> TRUE,
     fallback_reason |-> "no_match",
     matched |-> FALSE, score |-> best_score]   \* matched, score: history

\* engine_manager.py 214-246: the comparison with the accepted match m
matched_comparison(original_obj, m, preserved, best_score) ==
    [object_id |-> m.id, page |-> m.page,
     original_font |-> OrNA(original_obj.font_name),
     original_font_size |-> original_obj.font_size,
     final_font |-> OrNA(m.font_name),
     final_font_size |-> m.font_size,
     font_preserved |-> preserved,
     font_fallback_detected |-> ~preserved,
     fallback_reason |->
         IF ~preserved
         THEN fallback_reason(original_obj.font_name, m.font_name,
                              original_obj.font_size, m.font_size)
         ELSE "None",
     matched |-> TRUE, score |-> best_score]

\* The FontComparison built for one original object once the loop over
\* modified_objects has left bm = <<best_match, best_score>>.
FontComparison(original_obj, modified_objects, bm) ==
    IF bm[1] # 0 /\ bm[2] >= MIN_SCORE
    THEN matched_comparison(original_obj, modified_objects[bm[1]],
                            font_preserved(original_obj,
                                           modified_objects[bm[1]]),
                            bm[2])
    ELSE unverified_comparison(original_obj, bm[2])

compare_one(original_obj, modified_objects, search_term, new_content) ==
    FontComparison(original_obj, modified_objects,
                   best_match(original_obj, modified_objects, search_term,
                              new_content, Len(modified_objects)))

detect_font_fallback(original_objects, modified_objects, target_object_ids, search_term, new_content) ==
    LET IsTarget(obj) == obj.id \in target_object_ids
        target_original_objects == SelectSeq(original_objects, IsTarget)
    IN  [k \in 1..Len(target_original_objects) |->
            compare_one(target_original_objects[k], modified_objects,
                        search_term, new_content)]

\* EngineResult.__post_init__: any_font_fallback
any_font_fallback(font_comparisons) ==
    \E k \in 1..Len(font_comparisons) :
        font_comparisons[k].font_fallback_detected

\* ------------------------------------------------------------------------
\* FontManager (the font requirement tracker)
\* ------------------------------------------------------------------------
EXACT == "exact"
SIMILAR == "similar"
VARIANT == "variant"
FALLBACK == "fallback"
MISSING == "missing"
FontMatchQuality == {EXACT, SIMILAR, VARIANT, FALLBACK, MISSING}

NoPage == -1

\* FontManager.__init__; missing_fonts holds the positions, in requirements,
\* of the FontRequirement objects the Python list shares with requirements.
NewFontManager == [requirements |-> <<>>, missing_fonts |-> <<>>]

is_acceptable(req) == req.match_quality = EXACT

\* A variant of needs_installation that takes a variant for installed.
needs_installation_but_variant(req) == req.match_quality \in {MISSING, FALLBACK}

needs_installation(req) == req.match_quality \in {MISSING, FALLBACK, VARIANT}

\* position of the first requirement for font_name, 0 for None
existing_requirement(fm, font_name) ==
    IF \E i \in 1..Len(fm.requirements) :
           fm.requirements[i].font_name = font_name
    THEN CHOOSE i \in 1..Len(fm.requirements) :
           /\ fm.requirements[i].font_name = font_name
           /\ \A j \in 1..(i - 1) : fm.requirements[j].font_name # font_name
    ELSE 0

\* A variant of add_requirement that does not look for an existing
\* requirement.
add_requirement_always_new(fm, font_name, found_font, match_quality, page) ==
    [requirements |->
         Append(fm.requirements,
                [font_name |-> font_name, match_quality |-> match_quality,
                 found_font |-> found_font, occurrences |-> 1,
                 pages |-> IF page # NoPage THEN <<page>> ELSE <<>>]),
     missing_fonts |-> fm.missing_fonts]

add_requirement(fm, font_name, found_font, match_quality, page) ==
    LET e == existing_requirement(fm, font_name)
    IN  IF e # 0
        THEN LET old == fm.requirements[e]
                 upd == [old EXCEPT
                           !.occurrences = @ + 1,
                           !.pages = IF page # NoPage
                                        /\ \A k \in 1..Len(@) : @[k] # page
                                     THEN Append(@, page) ELSE @]
             IN  [fm EXCEPT !.requirements[e] = upd]
        ELSE LET req == [font_name |-> font_name,
                         match_quality |-> match_quality,
                         found_font |-> found_font,
                         occurrences |-> 1,
                         pages |-> IF page # NoPage THEN <<page>> ELSE <<>>]
             IN  [requirements |-> Append(fm.requirements, req),
                  missing_fonts |->
                      IF needs_installation(req)
                      THEN Append(fm.missing_fonts, Len(fm.requirements) + 1)
                      ELSE fm.missing_fonts]

has_missing_fonts(fm) == Len(fm.missing_fonts) > 0

\* the loop of should_block_operation over requirements 1..i
RECURSIVE any_not_exact(_, _)
any_not_exact(reqs, i) ==
    IF i > Len(reqs) THEN FALSE
    ELSE IF reqs[i].match_quality # EXACT THEN TRUE
    ELSE any_not_exact(reqs, i + 1)

\* A variant of should_block_operation that does not look at strict_mode.
block_in_any_mode(fm, strict_mode) == any_not_exact(fm.requirements, 1)

should_block_operation(fm, strict_mode) ==
    IF ~strict_mode THEN FALSE
    ELSE any_not_exact(fm.requirements, 1)

\* ------------------------------------------------------------------------
\* Font resolution: PDFRepository.get_font_for_text_object
\* ------------------------------------------------------------------------
\* str.lower() of the font names of the model, as character sequences
Lower(name) ==
    CASE name = "ArialMT"      -> <<"a","r","i","a","l","m","t">>
      [] name = "Arial"        -> <<"a","r","i","a","l">>
      [] name = "Arial Narrow" -> <<"a","r","i","a","l"," ","n","a","r","r","o","w">>
      [] name = "Custom"       -> <<"c","u","s","t","o","m">>
      [] name = "Helvetica"    -> <<"h","e","l","v","e","t","i","c","a">>
      [] name = ""             -> <<>>

NoFont == "-none-"

\* The font environment of one operation: which fonts of the document carry
\* an extracted font file (fonts_dict[name].font_file_path), whether such a
\* file loads, what the system font search loads for a name (NoFont when
\* every candidate fails), and whether the built-in base fonts load.
FontEnvs ==
    { [embedded |-> {"ArialMT", "Custom"}, embedded_loads |-> TRUE,
       system |-> [n \in {"ArialMT", "Custom"} |-> NoFont], base_ok |-> TRUE],
      [embedded |-> {"ArialMT"}, embedded_loads |-> FALSE,
       system |-> [n \in {"ArialMT", "Custom"} |->
                     IF n = "ArialMT" THEN "Arial" ELSE "Custom"],
       base_ok |-> TRUE],
      [embedded |-> {}, embedded_loads |-> TRUE,
       system |-> [n \in {"ArialMT", "Custom"} |-> n], base_ok |-> TRUE],
      [embedded |-> {}, embedded_loads |-> TRUE,
       system |-> [n \in {"ArialMT", "Custom"} |->
                     IF n = "ArialMT" THEN "Arial Narrow" ELSE NoFont],
       base_ok |-> TRUE],
      [embedded |-> {}, embedded_loads |-> TRUE,
       system |-> [n \in {"ArialMT", "Custom"} |-> NoFont], base_ok |-> FALSE] }

\* before the document is opened nothing is known of its fonts
UnknownFonts ==
    [embedded |-> {}, embedded_loads |-> FALSE,
     system |-> [n \in {"ArialMT", "Custom"} |-> NoFont], base_ok |-> FALSE]

\* font_mapping and the name patterns: every name of the model maps to the
\* base font "helv", whose Font.name is "Helvetica".
mapped_base_font(font_name) == "Helvetica"

\* _find_system_font: the font the system search loads for a name; a name
\* the search has loaded a font under is found again under that name
system_font(font_name, env) ==
    IF font_name \in DOMAIN env.system THEN env.system[font_name]
    ELSE IF \E n \in DOMAIN env.system : env.system[n] = font_name
    THEN font_name
    ELSE NoFont

\* <<font_loaded (its name, NoFont for None), font_source>>
get_font_for_text_object(font_name, env) ==
    IF font_name \in env.embedded /\ env.embedded_loads
    THEN <<font_name, "extracted">>
    ELSE IF font_name # "" /\ system_font(font_name, env) # NoFont
    THEN <<system_font(font_name, env), "system">>
    ELSE IF env.base_ok
    THEN <<mapped_base_font(font_name), "fallback">>
    ELSE <<NoFont, "none">>

\* loaded_font_name.lower() in final_font.lower() or the converse
font_name_matches(loaded_font_name, final_font) ==
    \/ Contains(Lower(final_font), Lower(loaded_font_name))
    \/ Contains(Lower(loaded_font_name), Lower(final_font))

\* The resolution block of the loop (services.py 396-466) for one run:
\* fc is font_cache, fm the font manager.  Gives the font loaded, the
\* font_source and font_fallback_occurred after the block, and the new
\* font_cache and font manager.
resolve_font(final_font, page, fc, fm, env) ==
    IF final_font # "" /\ final_font \in DOMAIN fc
    THEN [font_loaded |-> fc[final_font], font_source |-> "cache",
          font_fallback_occurred |-> FALSE, font_cache |-> fc,
          font_manager |-> fm]
    ELSE LET r == get_font_for_text_object(final_font, env)
             loaded == r[1]
         IN  IF loaded # NoFont
             THEN LET src1 == IF final_font \in env.embedded
                              THEN "embedded" ELSE r[2]
                      fc1 == IF final_font # ""
                             THEN [n \in DOMAIN fc \cup {final_font} |->
                                     IF n = final_font THEN loaded ELSE fc[n]]
                             ELSE fc
                      tracked == src1 \in {"system", "extracted", "fallback",
                                           "cache"} /\ final_font # ""
                      matches == font_name_matches(loaded, final_font)
                      quality ==
                          IF src1 = "extracted" \/ src1 = "embedded" THEN EXACT
                          ELSE IF matches /\ src1 \in {"system", "cache"}
                          THEN EXACT
                          ELSE IF src1 \in {"system", "cache"} /\ ~matches
                          THEN VARIANT
                          ELSE IF src1 = "fallback" THEN FALLBACK
                          ELSE SIMILAR
                      fm1 == IF tracked /\ quality # EXACT
                             THEN add_requirement(fm, final_font, loaded,
                                                  quality, page)
                             ELSE fm
                      fell == tracked /\ ~matches /\ src1 # "embedded"
                  IN  [font_loaded |-> loaded,
                       font_source |-> IF fell THEN "fallback" ELSE src1,
                       font_fallback_occurred |-> fell,
                       font_cache |-> fc1, font_manager |-> fm1]
             ELSE [font_loaded |-> NoFont, font_source |-> "none",
                   font_fallback_occurred |-> TRUE, font_cache |-> fc,
                   font_manager |-> add_requirement(fm, final_font, NoFont,
                                                    MISSING, page)]

\* n / d rounded to the nearest integer, halves to even (n >= 0, d > 0)
RoundDiv(n, d) ==
    LET q == n \div d
        r == n % d
    IN  IF 2 * r < d THEN q
        ELSE IF 2 * r > d THEN q + 1
        ELSE IF q % 2 = 0 THEN q ELSE q + 1

\* final_font_size after the height-preserving adjustment (services.py
\* 468-506), in tenths of a point; height2 is original_height in half points.
\* adjusted_size is kept as the fraction num / den.
adjusted_font_size(font_source, font_loaded, font_fallback_occurred, height2, original_font_size) ==
    LET font_changed ==
            \/ font_source \in {"system", "fallback"}
            \/ (font_loaded # NoFont /\ font_fallback_occurred)
        s == original_font_size
        \* abs(height_ratio - 1.2) > 0.15, with height_ratio = height2/(2 s)
        special == Abs(10 * height2 - 24 * s) > 3 * s
        \* original_height / 1.2 = 5 height2 / 12, or original_height /
        \* height_ratio = s
        num == IF special THEN 12 * s ELSE 5 * height2
        den == 12
        low == 10 * num < 8 * s * den
        high == 10 * num > 13 * s * den
        \* adjusted_size after the limits is n2 / d2
        n2 == IF low THEN 9 * s ELSE IF high THEN 115 * s ELSE num
        d2 == IF low THEN 10 ELSE IF high THEN 100 ELSE den
        \* round(adjusted_size, 1), in tenths
        tenths == RoundDiv(10 * n2, d2)
    IN  IF font_changed /\ s > 0
        THEN IF tenths < 10 THEN 10 ELSE tenths
        ELSE 10 * s

\* ------------------------------------------------------------------------
\* State of one call of _edit_text_all_occurrences
\* ------------------------------------------------------------------------
VARIABLES
    pc,                    \* the statement the call has reached
    search_term, new_content, prefer_engine, strict_fonts,   \* arguments
    output_is_input,       \* output_path names the same file as pdf_path
    font_env,              \* the font environment (an element of FontEnvs)
    reinsert_shift,        \* how the library places the text it writes
    input_spans,           \* the text spans of the document given as input
    in_before, out_before, \* what pdf_path and the output path held before
                           \* the call
    fs,                    \* the files: path -> what the file holds
    output_path,           \* the local variable output_path
    work_spans,            \* the document open on the working copy
    processed_ids, occurrences_processed, font_cache,
    font_manager,          \* the FontManager of the call
    doc_A, doc_B,          \* the spans Strategy A saved, Strategy B wrote
    engine_results,        \* the attempt log
    audit_logs,            \* the audit records written to logs/
    outcome,               \* "running", "returned", or the exception raised
    faults,                \* failures of the environment so far
    pypdf_calls,           \* history: calls of edit_text_with_pypdf
    hard_failure,          \* history: Strategy A raised
    page_numbers,          \* delete_pages: the page numbers requested
    doc_pages,             \* delete_pages: len(doc) of the input document
    saved_doc              \* delete_pages: the pages (0-indexed, of the
                           \* input) of the document saved at output_path

vars == <<pc, search_term, new_content, prefer_engine, strict_fonts,
          output_is_input, font_env, input_spans, in_before, out_before, fs,
          output_path, work_spans, processed_ids, occurrences_processed,
          font_cache, font_manager, doc_A, doc_B, engine_results,
          audit_logs, outcome, pypdf_calls, hard_failure, reinsert_shift,
          faults, page_numbers, doc_pages, saved_doc>>

args == <<search_term, new_content, prefer_engine, strict_fonts,
          output_is_input, input_spans, in_before, out_before>>

\* the variables of services.delete_pages
pages == <<page_numbers, doc_pages, saved_doc>>

\* what the call finds on the machine it runs on
env == <<font_env, reinsert_shift>>

\* Files.  "in" is pdf_path, "out" the output path when it is another file,
\* "work" and "save" the two temporary files, "side" and "side_save" the
\* path output_path + ".pypdf" for the two values output_path can take.
Paths == {"in", "out", "work", "save", "side", "side_save"}

\* What a file holds: nothing at the path ("none"), a new empty temporary
\* file, the input document, a file that was at the output path before the
\* call, the document Strategy A saved, the one Strategy B wrote, or bytes
\* that are no readable PDF.
FileTags == {"none", "empty", "orig", "old", "A", "B", "corrupt"}

final_output_path == IF output_is_input THEN "in" ELSE "out"
working_temp_path == "work"
\* A variant of save_temp_path: the document is saved at the output path.
save_at_output_path == final_output_path
save_temp_path == "save"
pypdf_path(p) == IF p = "save" THEN "side_save" ELSE "side"

FileSpans(tag) ==
    CASE tag = "orig" -> input_spans
      [] tag = "A" -> doc_A
      [] tag = "B" -> doc_B

Readable(tag) == tag \in {"orig", "A", "B"}

\* str.lower() of the engine names
LowerEngine(name) ==
    CASE name = "pymupdf" -> "pymupdf"
      [] name = "PyMuPDF" -> "pymupdf"
      [] name = "pypdf" -> "pypdf"

\* ------------------------------------------------------------------------
\* Inputs
\* ------------------------------------------------------------------------
\* How the library places the text it writes: the shift of the top of the
\* bounding box and the change of its width, in half points.
ReinsertShifts == { [dy |-> 0, dw |-> 0], [dy |-> 1, dw |-> 2] }

SpanPool ==
    << Span(0, Pt(50), Pt(100), Pt(40), Pt(12), "ArialMT", 10,
            <<"x", "a">>, TRUE),
       Span(0, Pt(50) + 1, Pt(100), Pt(40), Pt(12), "ArialMT", 10,
            <<"a">>, FALSE),
       Span(0, Pt(50), Pt(130), Pt(30), Pt(12) - 1, "Custom", 10,
            <<"a">>, TRUE),
       Span(1, Pt(50), Pt(100), Pt(40), Pt(12), "ArialMT", 10,
            <<"b">>, TRUE),
       Span(1, Pt(50), Pt(130), Pt(30), Pt(12) - 1, "ArialMT", 10,
            <<"a">>, TRUE) >>

\* the documents: the spans of SpanPool picked by a set of at most MaxRuns
\* positions, in the order of the pool
RECURSIVE PickSpans(_, _)
PickSpans(S, i) ==
    IF i > Len(SpanPool) THEN <<>>
    ELSE (IF i \in S THEN <<SpanPool[i]>> ELSE <<>>) \o PickSpans(S, i + 1)

Documents ==
    { PickSpans(S, 1) : S \in { T \in SUBSET (1..Len(SpanPool)) :
                                  Cardinality(T) \in 1..MaxRuns } }

SearchTerms == { <<"a">> }
NewContents == { <<"b">>, <<"a", "a">>, <<>> }
EngineNames == { "PyMuPDF", "pypdf" }

original_text_objects == extract_text_objects(input_spans)

IsTargetObject(obj) == Contains(obj.content, search_term)

target_object_ids ==
    LET t == SelectSeq(original_text_objects, IsTargetObject)
    IN  { t[k].id : k \in 1..Len(t) }

Init ==
    /\ pc = "idle"
    /\ search_term \in SearchTerms
    /\ new_content \in NewContents
    /\ prefer_engine \in EngineNames
    /\ strict_fonts \in BOOLEAN
    /\ output_is_input \in BOOLEAN
    /\ font_env = UnknownFonts
    /\ reinsert_shift = [dy |-> 0, dw |-> 0]
    /\ input_spans \in Documents
    /\ in_before \in {"orig", "none", "corrupt"}
    /\ out_before \in IF output_is_input THEN {"none"} ELSE {"none", "old"}
    /\ fs = [p \in Paths |-> IF p = "in" THEN in_before
                              ELSE IF p = "out" THEN out_before
                              ELSE "none"]
    /\ output_path = final_output_path
    /\ work_spans = <<>>
    /\ processed_ids = <<>>
    /\ occurrences_processed = 0
    /\ font_cache = <<>>
    /\ font_manager = NewFontManager
    /\ doc_A = <<>>
    /\ doc_B = <<>>
    /\ engine_results = <<>>
    /\ audit_logs = <<>>
    /\ outcome = "running"
    /\ faults = 0
    /\ pypdf_calls = 0
    /\ hard_failure = FALSE
    /\ page_numbers = <<>>
    /\ doc_pages = 0
    /\ saved_doc = <<>>

\* ------------------------------------------------------------------------
\* services.py 278-299: the engine and font managers, the pre-edit snapshot
\* (create_backup is False in the call edit_text makes)
\* ------------------------------------------------------------------------
Raise(exc) ==
    /\ pc' = "failed"
    /\ outcome' = exc

\* A variant of OpenInput that creates the temporary files before it opens
\* the document.
OpenInputAfterTempFiles ==
    /\ pc = "idle"
    /\ fs' = [fs EXCEPT ![working_temp_path] = "empty",
                        ![save_temp_path] = "empty"]
    /\ IF fs["in"] = "none" THEN Raise("PDFFileNotFoundError")
       ELSE IF ~Readable(fs["in"]) THEN Raise("PDFMalformedError")
       ELSE pc' = "prepare" /\ outcome' = outcome
    /\ UNCHANGED <<args, pages, env, output_path, work_spans, processed_ids,
                   occurrences_processed, font_cache, font_manager, doc_A,
                   doc_B, engine_results, audit_logs, pypdf_calls,
                   hard_failure, faults>>

OpenInput ==
    /\ pc = "idle"
    /\ IF fs["in"] = "none" THEN Raise("PDFFileNotFoundError")
       ELSE IF ~Readable(fs["in"]) THEN Raise("PDFMalformedError")
       ELSE pc' = "prepare" /\ outcome' = outcome
    /\ UNCHANGED <<args, pages, env, fs, output_path, work_spans, processed_ids,
                   occurrences_processed, font_cache, font_manager, doc_A,
                   doc_B, engine_results, audit_logs, pypdf_calls,
                   hard_failure, faults>>

\* services.py 301-344: the two temporary files, the working copy, the
\* document opened on it
Prepare ==
    /\ pc = "prepare"
    /\ fs' = [fs EXCEPT ![working_temp_path] = fs["in"],
                        ![save_temp_path] = "empty"]
    /\ work_spans' = FileSpans(fs["in"])
    /\ font_cache' = <<>>
    /\ font_env' \in FontEnvs
    /\ reinsert_shift' \in ReinsertShifts
    /\ pc' = "loop"
    /\ UNCHANGED <<args, pages, output_path, processed_ids, occurrences_processed,
                   font_manager, doc_A, doc_B, engine_results, audit_logs,
                   outcome, pypdf_calls, hard_failure, faults>>

\* ------------------------------------------------------------------------
\* services.py 353-659: one iteration of Strategy A's loop
\* ------------------------------------------------------------------------
\* position in text_objects of the next occurrence, 0 for None
next_target(text_objects, processed) ==
    LET hit(i) == /\ \A k \in 1..Len(processed) : processed[k] # text_objects[i].id
                  /\ Contains(text_objects[i].content, search_term)
    IN  IF \E i \in 1..Len(text_objects) : hit(i)
        THEN CHOOSE i \in 1..Len(text_objects) :
                 hit(i) /\ \A j \in 1..(i - 1) : ~hit(j)
        ELSE 0

final_content(original_content) ==
    IF Contains(original_content, search_term)
       /\ search_term # original_content
    THEN ReplaceFirst(original_content, search_term, new_content)
    ELSE new_content

\* apply_redactions removes the text inside the redaction rectangle
Overlaps(a, b) ==
    /\ a.page = b.page
    /\ a.x < b.x + b.width /\ b.x < a.x + a.width
    /\ a.y < b.y + b.height /\ b.y < a.y + a.height

RECURSIVE Flatten(_, _)
Flatten(ss, i) ==
    IF i > Len(ss) THEN <<>> ELSE ss[i] \o Flatten(ss, i + 1)

\* the page after the redaction of spans[i] and the insertion of ins (a
\* sequence of zero or one span)
redact_and_insert(spans, i, ins) ==
    Flatten([j \in 1..Len(spans) |->
                IF j = i THEN ins
                ELSE IF Overlaps(spans[j], spans[i]) THEN <<>>
                ELSE <<spans[j]>>], 1)

\* the span a re-extraction finds for text written at the place of target
written_span(target, text, font, size_tenths, shift) ==
    IF text = <<>> THEN <<>>
    ELSE << Span(target.page, target.x, target.y + shift.dy,
                 target.width + shift.dw, target.height,
                 font, size_tenths \div 10, text, FALSE) >>

EditOccurrence ==
    /\ pc = "loop"
    /\ occurrences_processed < MaxEdits
    /\ LET text_objects == extract_text_objects(work_spans)
           t == next_target(text_objects, processed_ids)
       IN  /\ t # 0
           /\ LET target_obj == text_objects[t]
                  text == final_content(target_obj.content)
                  final_font == target_obj.font_name
                  res == resolve_font(final_font, target_obj.page,
                                      font_cache, font_manager, font_env)
                  size == adjusted_font_size(res.font_source, res.font_loaded,
                                             res.font_fallback_occurred,
                                             target_obj.height,
                                             target_obj.font_size)
              IN  /\ processed_ids' = Append(processed_ids, target_obj.id)
                  /\ occurrences_processed' = occurrences_processed + 1
                  /\ font_cache' = res.font_cache
                  /\ font_manager' = res.font_manager
                  /\ \/ \* TextWriter, with font_loaded or with "helv"
                        /\ work_spans' = redact_and_insert(work_spans, t,
                              written_span(target_obj, text,
                                  IF res.font_loaded # NoFont
                                  THEN res.font_loaded ELSE "Helvetica",
                                  size, reinsert_shift))
                        /\ faults' = faults
                     \/ \* TextWriter raised: page.insert_text with "helv"
                        /\ faults < MaxFaults
                        /\ faults' = faults + 1
                        /\ work_spans' = redact_and_insert(work_spans, t,
                              written_span(target_obj, text, "Helvetica",
                                           size, reinsert_shift))
    /\ UNCHANGED <<args, pages, env, pc, fs, output_path, doc_A, doc_B, engine_results,
                   audit_logs, outcome, pypdf_calls, hard_failure>>

\* services.py 658-659: TextWriter and insert_text both raised; and a raise of
\* the redaction.  The exception leaves the function.
EditOccurrenceFails ==
    /\ pc = "loop"
    /\ next_target(extract_text_objects(work_spans), processed_ids) # 0
    /\ faults < MaxFaults
    /\ faults' = faults + 1
    /\ Raise("Exception")
    /\ hard_failure' = TRUE
    /\ UNCHANGED <<args, pages, env, fs, output_path, work_spans, processed_ids,
                   occurrences_processed, font_cache, font_manager, doc_A,
                   doc_B, engine_results, audit_logs, pypdf_calls>>

\* services.py 370-371, 663: no occurrence is left; doc.save(save_temp_path)
SaveWorking ==
    /\ pc = "loop"
    /\ next_target(extract_text_objects(work_spans), processed_ids) = 0
    /\ doc_A' = work_spans
    /\ fs' = [fs EXCEPT ![save_temp_path] = "A"]
    /\ pc' = "commit"
    /\ UNCHANGED <<args, pages, env, output_path, work_spans, processed_ids,
                   occurrences_processed, font_cache, font_manager, doc_B,
                   engine_results, audit_logs, outcome, pypdf_calls,
                   hard_failure, faults>>

\* A variant of SaveFails in which the error of doc.save is taken for a
\* failed attempt and Strategy B is tried.
SaveFailsThenSecondary ==
    /\ pc = "loop"
    /\ next_target(extract_text_objects(work_spans), processed_ids) = 0
    /\ faults < MaxFaults
    /\ faults' = faults + 1
    /\ hard_failure' = TRUE
    /\ pc' = "secondary"
    /\ UNCHANGED <<args, pages, env, fs, output_path, work_spans, processed_ids,
                   occurrences_processed, font_cache, font_manager, doc_A,
                   doc_B, engine_results, audit_logs, outcome, pypdf_calls>>

\* doc.save raises
SaveFails ==
    /\ pc = "loop"
    /\ next_target(extract_text_objects(work_spans), processed_ids) = 0
    /\ faults < MaxFaults
    /\ faults' = faults + 1
    /\ Raise("Exception")
    /\ hard_failure' = TRUE
    /\ UNCHANGED <<args, pages, env, fs, output_path, work_spans, processed_ids,
                   occurrences_processed, font_cache, font_manager, doc_A,
                   doc_B, engine_results, audit_logs, pypdf_calls>>

\* ------------------------------------------------------------------------
\* services.py 666-693: the saved file is moved to the output path
\* ------------------------------------------------------------------------
\* the try block: unlink of the working copy, mkdir, unlink of the file at
\* the output path, move of the saved file
Commit ==
    /\ pc = "commit"
    /\ fs' = [fs EXCEPT ![working_temp_path] = "none",
                        ![save_temp_path] = "none",
                        ![final_output_path] = fs[save_temp_path]]
    /\ output_path' = final_output_path
    /\ pc' = "detect"
    /\ UNCHANGED <<args, pages, env, work_spans, processed_ids,
                   occurrences_processed, font_cache, font_manager, doc_A,
                   doc_B, engine_results, audit_logs, outcome, pypdf_calls,
                   hard_failure, faults>>

\* services.py 678-693: a statement of the try block raised; the function
\* goes on with the temporary save file as its output.  The statements
\* before the one that raised have had their effect, and the handler tries
\* once more to unlink the working copy.
CommitFails ==
    /\ pc = "commit"
    /\ faults < MaxFaults
    /\ faults' = faults + 1
    /\ \E raised \in {"unlink_work", "unlink_out", "move"} :
          fs' = [fs EXCEPT
                   ![working_temp_path] =
                       IF raised = "unlink_work" THEN @ ELSE "none",
                   ![final_output_path] =
                       IF raised = "move" THEN "none" ELSE @]
    /\ output_path' = save_temp_path
    /\ pc' = "detect"
    /\ UNCHANGED <<args, pages, env, work_spans, processed_ids,
                   occurrences_processed, font_cache, font_manager, doc_A,
                   doc_B, engine_results, audit_logs, outcome, pypdf_calls,
                   hard_failure>>

\* ------------------------------------------------------------------------
\* EngineResult and the decisions of services.py 695-796
\* ------------------------------------------------------------------------
EngineResult(engine, success, path, font_comparisons, error) ==
    [engine |-> engine, success |-> success, output_path |-> path,
     font_comparisons |-> font_comparisons,
     any_font_fallback |-> any_font_fallback(font_comparisons),
     error |-> error]

\* Variants of the condition of services.py 729, against which the
\* escalation properties are tested: the first compares the engine name
\* without lower(), the second leaves the engine name out.
run_pypdf_without_lower(fallback_detected, engine) ==
    fallback_detected /\ engine = "pymupdf"

run_pypdf_on_fallback(fallback_detected, engine) == fallback_detected

\* services.py 729
should_run_pypdf(fallback_detected, engine) ==
    fallback_detected /\ LowerEngine(engine) = "pymupdf"

\* A variant of the condition of services.py 756 that leaves success out.
adopt_if_no_fallback(pypdf_result) == ~pypdf_result.any_font_fallback

\* services.py 756
should_adopt_pypdf(pypdf_result) ==
    pypdf_result.success /\ ~pypdf_result.any_font_fallback

\* services.py 699-741: the post-edit snapshot, the fidelity check, the
\* attempt of Strategy A
DetectPrimary ==
    /\ pc = "detect"
    /\ Readable(fs[output_path])
    /\ \E font_comparisons \in
             { detect_font_fallback(
                   original_text_objects,
                   extract_text_objects(FileSpans(fs[output_path])),
                   target_object_ids, search_term, new_content) } :
          /\ engine_results' =
                 Append(engine_results,
                        EngineResult("pymupdf", TRUE, output_path,
                                     font_comparisons, "None"))
          /\ pc' = IF should_run_pypdf(any_font_fallback(font_comparisons),
                                       prefer_engine)
                   THEN "secondary" ELSE "audit"
    /\ UNCHANGED <<args, pages, env, fs, output_path, work_spans, processed_ids,
                   occurrences_processed, font_cache, font_manager, doc_A,
                   doc_B, audit_logs, outcome, pypdf_calls, hard_failure, faults>>

\* services.py 797-806: the post-edit extraction or the check raised; the
\* error is logged and the function goes on without an attempt
DetectPrimaryError ==
    /\ pc = "detect"
    /\ faults < MaxFaults
    /\ faults' = faults + 1
    /\ pc' = "audit"
    /\ UNCHANGED <<args, pages, env, fs, output_path, work_spans, processed_ids,
                   occurrences_processed, font_cache, font_manager, doc_A,
                   doc_B, engine_results, audit_logs, outcome, pypdf_calls,
                   hard_failure>>

\* ------------------------------------------------------------------------
\* EngineManager.edit_text_with_pypdf (Strategy B)
\* ------------------------------------------------------------------------
\* engine_manager.py 429-504 for one target: every literal string of the
\* target's page that equals the target's text is rewritten
substitute_target(spans, target_obj) ==
    LET original_text == target_obj.content
        replacement_text ==
            IF Contains(original_text, search_term)
               /\ search_term # original_text
            THEN ReplaceFirst(original_text, search_term, new_content)
            ELSE new_content
    IN  [j \in 1..Len(spans) |->
            IF /\ spans[j].page = target_obj.page
               /\ spans[j].literal
               /\ spans[j].content = original_text
            THEN [spans[j] EXCEPT !.content = replacement_text]
            ELSE spans[j]]

\* the loop over target_objects 1..k
RECURSIVE substitute_targets(_, _, _)
substitute_targets(spans, targets, k) ==
    IF k = 0 THEN spans
    ELSE LET rewritten == substitute_targets(spans, targets, k - 1)
         IN  substitute_target(rewritten, targets[k])

\* a span whose text became empty shows no text
ShownSpans(spans) ==
    LET shown(sp) == sp.content # <<>>
    IN  SelectSeq(spans, shown)

\* the spans of the file Strategy B writes from the spans of pdf_path;
\* stream_updated: the rewritten stream reached the written pages
pypdf_output(source_spans, stream_updated) ==
    LET IsTarget(obj) == obj.id \in target_object_ids
        target_objects == SelectSeq(original_text_objects, IsTarget)
    IN  IF stream_updated
        THEN ShownSpans(substitute_targets(source_spans, target_objects,
                                           Len(target_objects)))
        ELSE source_spans

\* engine_manager.py 606-640: the result once the file is written and the
\* comparisons are made
pypdf_attempt(font_comparisons, path) ==
    EngineResult("pypdf",
                 Len(font_comparisons) > 0
                     /\ ~any_font_fallback(font_comparisons),
                 path, font_comparisons,
                 IF Len(font_comparisons) > 0
                    /\ ~any_font_fallback(font_comparisons)
                 THEN "None" ELSE "fonts not preserved")

pypdf_result_of(modified_objects, path) ==
    pypdf_attempt(detect_font_fallback(original_text_objects,
                                       modified_objects, target_object_ids,
                                       search_term, new_content),
                  path)

\* engine_manager.py 642-657
pypdf_error_result == EngineResult("pypdf", FALSE, "None", <<>>, "error")

\* pc after services.py 752-756
after_pypdf(pypdf_result) ==
    IF should_adopt_pypdf(pypdf_result) THEN "adopt_unlink"
    ELSE IF ~pypdf_result.success THEN "cleanup_side"
    ELSE "audit"

\* services.py 743-753: Strategy B is run on pdf_path, writing
\* output_path + ".pypdf", and its attempt is appended
RunSecondary ==
    /\ pc = "secondary"
    /\ pypdf_calls' = pypdf_calls + 1
    /\ \/ \* the file is written and read back
          /\ Readable(fs["in"])
          /\ \E stream_updated \in BOOLEAN :
               /\ doc_B' = pypdf_output(FileSpans(fs["in"]), stream_updated)
               /\ fs' = [fs EXCEPT ![pypdf_path(output_path)] = "B"]
               /\ \E r \in { pypdf_result_of(extract_text_objects(doc_B'),
                                              pypdf_path(output_path)) } :
                     /\ engine_results' = Append(engine_results, r)
                     /\ pc' = after_pypdf(r)
          /\ faults' = faults
       \/ \* the file is written, and reading it back raises
          /\ Readable(fs["in"])
          /\ faults < MaxFaults
          /\ faults' = faults + 1
          /\ doc_B' = doc_B
          /\ fs' = [fs EXCEPT ![pypdf_path(output_path)] = "corrupt"]
          /\ \E r \in { pypdf_result_of(<<>>, pypdf_path(output_path)) } :
                /\ engine_results' = Append(engine_results, r)
                /\ pc' = after_pypdf(r)
       \/ \* PyPDF2 is missing, or pdf_path cannot be read, or the library
          \* raises before the file is opened for writing
          /\ \/ ~Readable(fs["in"]) /\ faults' = faults
             \/ faults < MaxFaults /\ faults' = faults + 1
          /\ doc_B' = doc_B
          /\ fs' = fs
          /\ engine_results' = Append(engine_results, pypdf_error_result)
          /\ pc' = after_pypdf(pypdf_error_result)
       \/ \* writer.write raises
          /\ Readable(fs["in"])
          /\ faults < MaxFaults
          /\ faults' = faults + 1
          /\ doc_B' = doc_B
          /\ fs' = [fs EXCEPT ![pypdf_path(output_path)] = "corrupt"]
          /\ engine_results' = Append(engine_results, pypdf_error_result)
          /\ pc' = after_pypdf(pypdf_error_result)
    /\ UNCHANGED <<args, pages, env, output_path, work_spans, processed_ids,
                   occurrences_processed, font_cache, font_manager, doc_A,
                   audit_logs, outcome, hard_failure>>

\* services.py 759-760
AdoptUnlink ==
    /\ pc = "adopt_unlink"
    /\ fs' = [fs EXCEPT ![output_path] = "none"]
    /\ pc' = "adopt_move"
    /\ UNCHANGED <<args, pages, env, output_path, work_spans, processed_ids,
                   occurrences_processed, font_cache, font_manager, doc_A,
                   doc_B, engine_results, audit_logs, outcome, pypdf_calls,
                   hard_failure, faults>>

\* services.py 761-762
AdoptMove ==
    /\ pc = "adopt_move"
    /\ fs' = IF fs[pypdf_path(output_path)] # "none"
             THEN [fs EXCEPT ![output_path] = fs[pypdf_path(output_path)],
                             ![pypdf_path(output_path)] = "none"]
             ELSE fs
    /\ pc' = "audit"
    /\ UNCHANGED <<args, pages, env, output_path, work_spans, processed_ids,
                   occurrences_processed, font_cache, font_manager, doc_A,
                   doc_B, engine_results, audit_logs, outcome, pypdf_calls,
                   hard_failure, faults>>

\* services.py 771-779: the unlink or the move raised; the error is logged
AdoptFails ==
    /\ pc \in {"adopt_unlink", "adopt_move"}
    /\ faults < MaxFaults
    /\ faults' = faults + 1
    /\ pc' = "audit"
    /\ UNCHANGED <<args, pages, env, fs, output_path, work_spans, processed_ids,
                   occurrences_processed, font_cache, font_manager, doc_A,
                   doc_B, engine_results, audit_logs, outcome, pypdf_calls,
                   hard_failure>>

\* services.py 780-796
CleanupSide ==
    /\ pc = "cleanup_side"
    /\ \/ /\ fs' = [fs EXCEPT ![pypdf_path(output_path)] = "none"]
          /\ faults' = faults
       \/ \* the unlink raised, and the error is passed over
          /\ fs[pypdf_path(output_path)] # "none"
          /\ faults < MaxFaults
          /\ faults' = faults + 1
          /\ fs' = fs
    /\ pc' = "audit"
    /\ UNCHANGED <<args, pages, env, output_path, work_spans, processed_ids,
                   occurrences_processed, font_cache, font_manager, doc_A,
                   doc_B, engine_results, audit_logs, outcome, pypdf_calls,
                   hard_failure>>

\* ------------------------------------------------------------------------
\* create_audit_log and services.py 835-874
\* ------------------------------------------------------------------------
\* the hash of a file stands for what the file holds; "None" for no hash
file_hash(path) == IF fs[path] = "none" THEN "None" ELSE fs[path]

create_audit_log(results) ==
    [input_hash |-> file_hash("in"),
     output_hash |-> file_hash(output_path),
     output_file |-> output_path,
     engine_attempts |-> results,
     final_engine_used |-> IF results # <<>>
                           THEN results[Len(results)].engine ELSE "None",
     final_success |-> IF results # <<>>
                       THEN results[Len(results)].success ELSE FALSE,
     any_font_fallback |->
         \E k \in 1..Len(results) : results[k].any_font_fallback,
     font_preservation_success |->
         IF results # <<>>
         THEN results[Len(results)].success
              /\ ~results[Len(results)].any_font_fallback
         ELSE FALSE]

WriteAudit ==
    /\ pc = "audit"
    /\ audit_logs' = IF engine_results # <<>>
                     THEN Append(audit_logs, create_audit_log(engine_results))
                     ELSE audit_logs
    /\ pc' = "veto"
    /\ UNCHANGED <<args, pages, env, fs, output_path, work_spans, processed_ids,
                   occurrences_processed, font_cache, font_manager, doc_A,
                   doc_B, engine_results, outcome, pypdf_calls, hard_failure, faults>>

\* services.py 849-859.  The module never imports os (services.py 8-31), so
\* os.path.exists raises NameError before the file is removed and before
\* PDFCliException is raised.
StrictVeto ==
    /\ pc = "veto"
    /\ strict_fonts /\ should_block_operation(font_manager, TRUE)
    /\ Raise("NameError")
    /\ UNCHANGED <<args, pages, env, fs, output_path, work_spans, processed_ids,
                   occurrences_processed, font_cache, font_manager, doc_A,
                   doc_B, engine_results, audit_logs, pypdf_calls,
                   hard_failure, faults>>

\* services.py 861-874
Return ==
    /\ pc = "veto"
    /\ ~(strict_fonts /\ should_block_operation(font_manager, TRUE))
    /\ pc' = "done"
    /\ outcome' = "returned"
    /\ UNCHANGED <<args, pages, env, fs, output_path, work_spans, processed_ids,
                   occurrences_processed, font_cache, font_manager, doc_A,
                   doc_B, engine_results, audit_logs, pypdf_calls,
                   hard_failure, faults>>

\* services.py 870: details_dict["engine_used"]
engine_used ==
    IF engine_results # <<>>
    THEN engine_results[Len(engine_results)].engine ELSE "pymupdf"

Next ==
    \/ OpenInput
    \/ Prepare
    \/ EditOccurrence
    \/ EditOccurrenceFails
    \/ SaveWorking
    \/ SaveFails
    \/ Commit
    \/ CommitFails
    \/ DetectPrimary
    \/ DetectPrimaryError
    \/ RunSecondary
    \/ AdoptUnlink
    \/ AdoptMove
    \/ AdoptFails
    \/ CleanupSide
    \/ WriteAudit
    \/ StrictVeto
    \/ Return

Spec == Init /\ [][Next]_vars

\* ------------------------------------------------------------------------
\* The font requirement tracker on its own: a FontManager that is given any
\* sequence of at most MaxRecords add_requirement calls
\* ------------------------------------------------------------------------
TrackedNames == {"ArialMT", "Custom"}
TrackedPages == {NoPage, 0, 1}

\* the add_requirement calls made so far: every call adds one occurrence
RECURSIVE calls_recorded(_, _)
calls_recorded(reqs, i) ==
    IF i > Len(reqs) THEN 0
    ELSE reqs[i].occurrences + calls_recorded(reqs, i + 1)

InitTracker ==
    /\ pc = "tracker"
    /\ search_term = <<"a">>
    /\ new_content = <<"b">>
    /\ prefer_engine = "pypdf"
    /\ strict_fonts = FALSE
    /\ output_is_input = FALSE
    /\ font_env = UnknownFonts
    /\ reinsert_shift = [dy |-> 0, dw |-> 0]
    /\ input_spans = <<>>
    /\ in_before = "none"
    /\ out_before = "none"
    /\ fs = [p \in Paths |-> "none"]
    /\ output_path = "out"
    /\ work_spans = <<>>
    /\ processed_ids = <<>>
    /\ occurrences_processed = 0
    /\ font_cache = <<>>
    /\ font_manager = NewFontManager
    /\ doc_A = <<>>
    /\ doc_B = <<>>
    /\ engine_results = <<>>
    /\ audit_logs = <<>>
    /\ outcome = "running"
    /\ faults = 0
    /\ pypdf_calls = 0
    /\ hard_failure = FALSE
    /\ page_numbers = <<>>
    /\ doc_pages = 0
    /\ saved_doc = <<>>

Record ==
    /\ pc = "tracker"
    /\ calls_recorded(font_manager.requirements, 1) < MaxRecords
    /\ \E font_name \in TrackedNames, match_quality \in FontMatchQuality,
          page \in TrackedPages :
          font_manager' =
              add_requirement(font_manager, font_name,
                              IF match_quality = MISSING THEN NoFont
                              ELSE font_name,
                              match_quality, page)
    /\ UNCHANGED <<args, pages, env, pc, fs, output_path, work_spans, processed_ids,
                   occurrences_processed, font_cache, doc_A, doc_B,
                   engine_results, audit_logs, outcome, pypdf_calls,
                   hard_failure, faults>>

NextTracker == Record

SpecTracker == InitTracker /\ [][NextTracker]_vars

\* ------------------------------------------------------------------------
\* detect_font_fallback on its own: the pre-edit snapshot of a document of
\* Documents, and a post-edit snapshot of at most MaxCandidates runs
\* ------------------------------------------------------------------------
\* The runs a post-edit snapshot is made of.  Against the runs of SpanPool
\* at x = 50, y = 100 and at x = 50, y = 130 they give: the edited run at its
\* place with its font, with Helvetica, with another size; the edited run
\* 2.0 and 2.5 points to the right; a run that is near and scores low; the
\* edited run on the next page; the run left as it was; a run with no font
\* name.
CandidatePool ==
    { Span(0, Pt(50), Pt(100), Pt(40), Pt(12), "ArialMT", 10,
           <<"x", "b">>, FALSE),
      Span(0, Pt(50), Pt(100) + 1, Pt(40) + 2, Pt(12), "Helvetica", 10,
           <<"x", "b">>, FALSE),
      Span(0, Pt(50), Pt(100), Pt(40), Pt(12), "ArialMT", 11,
           <<"x", "b">>, FALSE),
      Span(0, Pt(50) + 4, Pt(100), Pt(40), Pt(12), "ArialMT", 10,
           <<"x", "b">>, FALSE),
      Span(0, Pt(50) + 5, Pt(100), Pt(40), Pt(12), "ArialMT", 10,
           <<"x", "b">>, FALSE),
      Span(0, Pt(50) + 3, Pt(100) + 13, Pt(40) + 21, Pt(12), "Helvetica", 10,
           <<"z">>, FALSE),
      Span(1, Pt(50), Pt(100), Pt(40), Pt(12), "ArialMT", 10,
           <<"x", "b">>, FALSE),
      Span(0, Pt(50), Pt(100), Pt(40), Pt(12), "ArialMT", 10,
           <<"x", "a">>, FALSE),
      Span(0, Pt(50), Pt(130), Pt(30), Pt(12) - 1, "Custom", 10,
           <<"b">>, FALSE),
      Span(0, Pt(50), Pt(130), Pt(30), Pt(12) - 1, "", 10,
           <<"b">>, FALSE) }

\* a document whose only run has no font name (span.get("font", ""))
UnnamedFontDocument ==
    << Span(0, Pt(50), Pt(130), Pt(30), Pt(12) - 1, "", 10, <<"a">>, TRUE) >>

PostEditSnapshots ==
    UNION { [1..n -> CandidatePool] : n \in 0..MaxCandidates }

InitDetect ==
    /\ pc = "compare"
    /\ search_term \in SearchTerms
    /\ new_content \in NewContents
    /\ prefer_engine = "pypdf"
    /\ strict_fonts = FALSE
    /\ output_is_input = FALSE
    /\ font_env = UnknownFonts
    /\ reinsert_shift = [dy |-> 0, dw |-> 0]
    /\ input_spans \in Documents \cup {UnnamedFontDocument}
    /\ in_before = "orig"
    /\ out_before = "none"
    /\ fs = [p \in Paths |-> IF p = "in" THEN "orig"
                              ELSE IF p = "out" THEN "A" ELSE "none"]
    /\ output_path = "out"
    /\ work_spans = <<>>
    /\ processed_ids = <<>>
    /\ occurrences_processed = 0
    /\ font_cache = <<>>
    /\ font_manager = NewFontManager
    /\ doc_A \in PostEditSnapshots
    /\ doc_B = <<>>
    /\ engine_results = <<>>
    /\ audit_logs = <<>>
    /\ outcome = "running"
    /\ faults = 0
    /\ pypdf_calls = 0
    /\ hard_failure = FALSE
    /\ page_numbers = <<>>
    /\ doc_pages = 0
    /\ saved_doc = <<>>

\* engine_manager.py 94-263 called as services.py 702-726 calls it; the
\* result is kept as the attempt of the engine
Compare ==
    /\ pc = "compare"
    /\ engine_results' =
          << EngineResult("pymupdf", TRUE, output_path,
                          detect_font_fallback(
                              original_text_objects,
                              extract_text_objects(FileSpans(fs[output_path])),
                              target_object_ids, search_term, new_content),
                          "None") >>
    /\ pc' = "compared"
    /\ UNCHANGED <<args, pages, env, fs, output_path, work_spans, processed_ids,
                   occurrences_processed, font_cache, font_manager, doc_A,
                   doc_B, audit_logs, outcome, pypdf_calls, hard_failure,
                   faults>>

NextDetect == Compare

SpecDetect == InitDetect /\ [][NextDetect]_vars

\* ------------------------------------------------------------------------
\* services.delete_pages and PDFRepository.delete_pages
\* ------------------------------------------------------------------------
\* the page numbers a caller may give (1-indexed), zero, a negative number
\* and a number past the last page included
RequestedNumbers == (0 - 1)..(MaxPages + 1)

PageRequests ==
    UNION { [1..n -> RequestedNumbers] : n \in 0..MaxRequested }

\* services.py 1757: [p - 1 for p in page_numbers if p > 0]
RECURSIVE page_numbers_0indexed(_)
page_numbers_0indexed(numbers) ==
    IF numbers = <<>> THEN <<>>
    ELSE (IF Head(numbers) > 0 THEN <<Head(numbers) - 1>> ELSE <<>>)
         \o page_numbers_0indexed(Tail(numbers))

\* pdf_repo.py 819-821: some page number is not a page of the document
invalid_page(numbers, max_pages) ==
    \E i \in 1..Len(numbers) : numbers[i] < 0 \/ numbers[i] >= max_pages

\* pdf_repo.py 828: [i for i in range(max_pages) if i not in set(numbers)]
RECURSIVE pages_to_keep(_, _, _)
pages_to_keep(numbers, max_pages, i) ==
    IF i >= max_pages THEN <<>>
    ELSE (IF \E k \in 1..Len(numbers) : numbers[k] = i THEN <<>> ELSE <<i>>)
         \o pages_to_keep(numbers, max_pages, i + 1)

InitDelete ==
    /\ pc = "delete"
    /\ search_term = <<"a">>
    /\ new_content = <<"b">>
    /\ prefer_engine = "pypdf"
    /\ strict_fonts = FALSE
    /\ output_is_input = FALSE
    /\ font_env = UnknownFonts
    /\ reinsert_shift = [dy |-> 0, dw |-> 0]
    /\ input_spans = <<>>
    /\ in_before = "orig"
    /\ out_before = "none"
    /\ fs = [p \in Paths |-> IF p = "in" THEN "orig" ELSE "none"]
    /\ output_path = "out"
    /\ work_spans = <<>>
    /\ processed_ids = <<>>
    /\ occurrences_processed = 0
    /\ font_cache = <<>>
    /\ font_manager = NewFontManager
    /\ doc_A = <<>>
    /\ doc_B = <<>>
    /\ engine_results = <<>>
    /\ audit_logs = <<>>
    /\ outcome = "running"
    /\ faults = 0
    /\ pypdf_calls = 0
    /\ hard_failure = FALSE
    /\ page_numbers \in PageRequests
    /\ doc_pages \in 1..MaxPages
    /\ saved_doc = <<>>

\* services.py 1757-1779 with pdf_repo.py 815-821: a number left in the
\* list is no page of the document
DeletePagesInvalid ==
    /\ pc = "delete"
    /\ invalid_page(page_numbers_0indexed(page_numbers), doc_pages)
    /\ Raise("InvalidPageError")
    /\ UNCHANGED <<args, pages, env, fs, output_path, work_spans,
                   processed_ids, occurrences_processed, font_cache,
                   font_manager, doc_A, doc_B, engine_results, audit_logs,
                   pypdf_calls, hard_failure, faults>>

\* services.py 1757-1779 with pdf_repo.py 815-836: the pages kept are put in
\* a new document, which is saved at output_path
DeletePages ==
    /\ pc = "delete"
    /\ ~invalid_page(page_numbers_0indexed(page_numbers), doc_pages)
    /\ \E kept \in {pages_to_keep(page_numbers_0indexed(page_numbers),
                                  doc_pages, 0)} :
          /\ kept # <<>>
          /\ saved_doc' = kept
    /\ pc' = "deleted"
    /\ outcome' = "returned"
    /\ UNCHANGED <<args, page_numbers, doc_pages, env, fs, output_path,
                   work_spans, processed_ids, occurrences_processed,
                   font_cache, font_manager, doc_A, doc_B, engine_results,
                   audit_logs, pypdf_calls, hard_failure, faults>>

\* services.py 1767: no page is kept, and the library does not save a
\* document without pages: modified_doc.save raises ValueError
DeleteEveryPage ==
    /\ pc = "delete"
    /\ ~invalid_page(page_numbers_0indexed(page_numbers), doc_pages)
    /\ pages_to_keep(page_numbers_0indexed(page_numbers), doc_pages, 0) = <<>>
    /\ Raise("ValueError")
    /\ UNCHANGED <<args, pages, env, fs, output_path, work_spans,
                   processed_ids, occurrences_processed, font_cache,
                   font_manager, doc_A, doc_B, engine_results, audit_logs,
                   pypdf_calls, hard_failure, faults>>

NextDelete ==
    \/ DeletePagesInvalid
    \/ DeletePages
    \/ DeleteEveryPage

SpecDelete == InitDelete /\ [][NextDelete]_vars

C3_HardFailure ==
    hard_failure
    => /\ pc = "failed"
       /\ outcome = "Exception"
       /\ pypdf_calls = 0
       /\ engine_results = <<>>

\* the library raised after an occurrence had been edited
C3_Witness ==
    /\ hard_failure
    /\ pc = "failed"
    /\ occurrences_processed >= 1

C5_PrimaryKept ==
    (/\ Len(engine_results) = 2
     /\ \/ ~engine_results[2].success
        \/ engine_results[2].any_font_fallback)
    => /\ fs[output_path] = "A"
       /\ engine_results[1].engine = "pymupdf"
       /\ engine_results[2].engine = "pypdf"
       /\ pc \in {"veto", "done", "failed"}
          => /\ Len(audit_logs) = 1
             /\ audit_logs[1].engine_attempts = engine_results
             /\ audit_logs[1].output_hash = "A"

\* the operation returned after a Strategy B that failed
C5_Witness ==
    /\ pc = "done"
    /\ Len(engine_results) = 2
    /\ ~engine_results[2].success
    /\ fs[output_path] = "A"
    /\ Len(audit_logs) = 1

\* C6: the file at pdf_path holds at every moment what it held before the
\* call, whatever the output path is.
C6_InputUntouched == fs["in"] = in_before

\* C7: until Strategy A has edited every occurrence and saved the working
\* copy, and when the operation fails before that, the output path holds
\* what it held before the call.
C7_OutputOnlyAfterPrimary ==
    (\/ pc \in {"idle", "prepare", "loop"}
     \/ /\ pc = "failed"
        /\ \/ hard_failure
           \/ outcome \in {"PDFFileNotFoundError", "PDFMalformedError"})
    => fs[final_output_path] = IF output_is_input THEN in_before
                               ELSE out_before

\* the library raised after an occurrence had been edited, and the file that
\* was at the output path is still there
C7_Witness ==
    /\ pc = "failed"
    /\ hard_failure
    /\ occurrences_processed >= 1
    /\ ~output_is_input
    /\ out_before = "old"
    /\ fs["out"] = "old"

\* C8: with strict_fonts, when a requirement of the tracker has a quality
\* other than exact and the library raised nothing, the operation ends with
\* PDFCliException and no file is at the output path.
C8_StrictVeto ==
    (/\ strict_fonts
     /\ \E i \in 1..Len(font_manager.requirements) :
            font_manager.requirements[i].match_quality # EXACT
     /\ ~hard_failure
     /\ pc \in {"done", "failed"})
    => /\ outcome = "PDFCliException"
       /\ fs[final_output_path] = "none"
       /\ fs[output_path] = "none"

\* ------------------------------------------------------------------------
\* Properties of the tracker (specification SpecTracker)
\* ------------------------------------------------------------------------
\* C9: should_block_operation(strict) is true exactly when strict is true
\* and a requirement has a quality other than exact; it is false for every
\* tracker when strict is false.
C9_ShouldBlock ==
    \A strict \in BOOLEAN :
        should_block_operation(font_manager, strict)
        <=> (/\ strict
             /\ \E i \in 1..Len(font_manager.requirements) :
                    font_manager.requirements[i].match_quality # EXACT)

\* one variant entry beside an exact entry: blocked when strict, not blocked
\* otherwise
C9_Witness ==
    /\ pc = "tracker"
    /\ Len(font_manager.requirements) = 2
    /\ font_manager.requirements[1].match_quality = EXACT
    /\ font_manager.requirements[2].match_quality = VARIANT
    /\ should_block_operation(font_manager, TRUE)
    /\ ~should_block_operation(font_manager, FALSE)

\* C10: after any sequence of add_requirement calls, has_missing_fonts is
\* true exactly when a requirement of the tracker has the quality missing,
\* fallback or variant.
C10_HasMissingFonts ==
    has_missing_fonts(font_manager)
    <=> \E i \in 1..Len(font_manager.requirements) :
            font_manager.requirements[i].match_quality
                \in {MISSING, FALLBACK, VARIANT}

\* three calls were made, for two names, the second name with the quality
\* variant, and the tracker has missing fonts
C10_Witness ==
    /\ pc = "tracker"
    /\ calls_recorded(font_manager.requirements, 1) = 3
    /\ Len(font_manager.requirements) = 2
    /\ font_manager.requirements[1].match_quality = SIMILAR
    /\ font_manager.requirements[2].match_quality = VARIANT
    /\ has_missing_fonts(font_manager)

\* C11: the tracker holds one requirement for each name it was given, and
\* whatever call is made next, no entry loses an occurrence or a page: a
\* call for a name the tracker has adds one to that entry's occurrences and
\* adds the page to its pages when the page is not among them; a call for a
\* new name adds one entry.
C11_OneEntryPerName ==
    LET reqs == font_manager.requirements
        PageSet(r) == {r.pages[k] : k \in 1..Len(r.pages)}
    IN  /\ \A i, j \in 1..Len(reqs) :
               reqs[i].font_name = reqs[j].font_name => i = j
        /\ \A i \in 1..Len(reqs) :
               Cardinality(PageSet(reqs[i])) = Len(reqs[i].pages)
        /\ \A font_name \in TrackedNames, match_quality \in FontMatchQuality,
              page \in TrackedPages :
             \A after \in {add_requirement(font_manager, font_name, font_name,
                                           match_quality, page)} :
                LET known == \E i \in 1..Len(reqs) :
                                 reqs[i].font_name = font_name
                    areqs == after.requirements
                IN  /\ Len(areqs) = Len(reqs) + (IF known THEN 0 ELSE 1)
                    /\ Cardinality({i \in 1..Len(areqs) :
                                      areqs[i].font_name = font_name}) = 1
                    /\ \A i \in 1..Len(reqs) :
                         /\ areqs[i].font_name = reqs[i].font_name
                         /\ areqs[i].match_quality = reqs[i].match_quality
                         /\ areqs[i].occurrences =
                              reqs[i].occurrences
                              + (IF reqs[i].font_name = font_name THEN 1 ELSE 0)
                         /\ PageSet(areqs[i]) =
                              PageSet(reqs[i])
                              \cup (IF reqs[i].font_name = font_name
                                       /\ page # NoPage
                                    THEN {page} ELSE {})
                         /\ Len(areqs[i].pages) = Cardinality(PageSet(areqs[i]))

\* a name was recorded three times, on two pages
C11_Witness ==
    /\ pc = "tracker"
    /\ Len(font_manager.requirements) = 1
    /\ font_manager.requirements[1].occurrences = 3
    /\ font_manager.requirements[1].pages = <<0, 1>>

\* ------------------------------------------------------------------------
\* Properties of the attempt log and of the audit record
\* ------------------------------------------------------------------------
\* C16: when a strategy raises or leaves an output that cannot be read, the
\* attempt log holds an attempt with success = false and the error text:
\* after a failure of Strategy A, and when Strategy A left no successful
\* attempt by the time the function goes on, a failed attempt is recorded;
\* every run of Strategy B leaves an attempt of pypdf that either succeeded
\* or carries its error.
C16_FailureRecorded ==
    LET failure_recorded(engine) ==
            \E k \in 1..Len(engine_results) :
                /\ engine_results[k].engine = engine
                /\ ~engine_results[k].success
                /\ engine_results[k].error # "None"
    IN  /\ hard_failure => failure_recorded("pymupdf")
        /\ (/\ pc \in {"audit", "veto", "done"}
            /\ \A k \in 1..Len(engine_results) :
                   ~(engine_results[k].engine = "pymupdf"
                     /\ engine_results[k].success))
           => failure_recorded("pymupdf")
        /\ (pypdf_calls > 0 /\ pc \in {"audit", "veto", "done"})
           => \E k \in 1..Len(engine_results) :
                  /\ engine_results[k].engine = "pypdf"
                  /\ engine_results[k].success
                     \/ engine_results[k].error # "None"

\* C17: an operation in which Strategy A ran ends with exactly one audit
\* record, and the record lists every attempt made, in order, with its
\* comparisons: one attempt of Strategy A, then one of Strategy B when it
\* was called.
C17_OneAuditRecord ==
    (/\ pc \in {"done", "failed"}
     /\ outcome \notin {"PDFFileNotFoundError", "PDFMalformedError"})
    => /\ Len(audit_logs) = 1
       /\ audit_logs[1].engine_attempts = engine_results
       /\ Len(engine_results) = 1 + pypdf_calls
       /\ engine_results[1].engine = "pymupdf"

\* C18: the audit record, and the engine_used given back to the caller, name
\* the strategy whose file is left at the output path, with the success of
\* that strategy's attempt.
C18_AdoptedEngineNamed ==
    LET adopted == IF fs[output_path] = "A" THEN "pymupdf"
                   ELSE IF fs[output_path] = "B" THEN "pypdf" ELSE "None"
        attempt_of(engine) ==
            CHOOSE k \in 1..Len(engine_results) :
                engine_results[k].engine = engine
    IN  (pc \in {"veto", "done"} /\ engine_results # <<>>
         /\ adopted # "None")
        => /\ \A k \in 1..Len(audit_logs) :
                /\ audit_logs[k].final_engine_used = adopted
                /\ audit_logs[k].final_success
                   = engine_results[attempt_of(adopted)].success
           /\ pc = "done" => engine_used = adopted

C20_SameResolutionFromCache ==
    pc = "loop" =>
        \A text_objects \in {extract_text_objects(work_spans)} :
        \A t \in {next_target(text_objects, processed_ids)} :
            (t # 0 /\ text_objects[t].font_name \in DOMAIN font_cache) =>
                \A cached \in {resolve_font(text_objects[t].font_name,
                                            text_objects[t].page, font_cache,
                                            font_manager, font_env)} :
                \A fresh \in {resolve_font(text_objects[t].font_name,
                                           text_objects[t].page, <<>>,
                                           font_manager, font_env)} :
                    /\ cached.font_loaded = fresh.font_loaded
                    /\ cached.font_source = fresh.font_source
                    /\ cached.font_fallback_occurred
                       = fresh.font_fallback_occurred
                    /\ adjusted_font_size(cached.font_source,
                           cached.font_loaded, cached.font_fallback_occurred,
                           text_objects[t].height, text_objects[t].font_size)
                       = adjusted_font_size(fresh.font_source,
                           fresh.font_loaded, fresh.font_fallback_occurred,
                           text_objects[t].height, text_objects[t].font_size)

\* C21: the font_source reported for the font of the next occurrence is
\* that of the strategy that produced the font: a font that the system
\* search or the fallback mapping produced is never reported as embedded.
C21_ProvenanceOfProducer ==
    pc = "loop" =>
        \A text_objects \in {extract_text_objects(work_spans)} :
        \A t \in {next_target(text_objects, processed_ids)} :
            t # 0 =>
                \A res \in {resolve_font(text_objects[t].font_name,
                                         text_objects[t].page, font_cache,
                                         font_manager, font_env)} :
                \A produced \in {get_font_for_text_object(
                                     text_objects[t].font_name, font_env)} :
                    res.font_source = "embedded"
                    => produced[2] \notin {"system", "fallback"}

\* C22: when no run of the document holds the search text, the edit of all
\* occurrences writes nothing at the output path and ends by raising
\* TextNotFoundError.
C22_TextNotFound ==
    (in_before = "orig" /\ target_object_ids = {})
    => /\ fs[final_output_path] = IF output_is_input THEN in_before
                                  ELSE out_before
       /\ pc \in {"done", "failed"} => outcome = "TextNotFoundError"

\* C24: when the input document is missing or cannot be opened, the
\* operation ends at once with PDFFileNotFoundError or PDFMalformedError:
\* no attempt is recorded, no temporary file exists and every path holds
\* what it held before the call.
C24_FailFast ==
    in_before \in {"none", "corrupt"}
    => /\ pc \in {"idle", "failed"}
       /\ pc = "failed"
          => outcome = IF in_before = "none" THEN "PDFFileNotFoundError"
                       ELSE "PDFMalformedError"
       /\ engine_results = <<>>
       /\ pypdf_calls = 0
       /\ audit_logs = <<>>
       /\ fs[working_temp_path] = "none"
       /\ fs[save_temp_path] = "none"
       /\ fs["in"] = in_before
       /\ fs["out"] = out_before

\* the input cannot be opened and a file stands at the output path
C24_Witness ==
    /\ pc = "failed"
    /\ outcome = "PDFMalformedError"
    /\ in_before = "corrupt"
    /\ out_before = "old"
    /\ fs["out"] = "old"

\* C26: every comparison with font_fallback_detected carries a reason, and
\* for an accepted match the reason is one of: replaced by the standard
\* Helvetica, another font, another size; whatever the font names (an empty
\* name before the edit included) and the sizes are.
C26_FallbackHasReason ==
    pc = "compared" =>
        \A k \in 1..Len(engine_results[1].font_comparisons) :
            LET c == engine_results[1].font_comparisons[k]
            IN  c.font_fallback_detected =>
                    /\ c.fallback_reason # "None"
                    /\ c.matched
                       => c.fallback_reason
                          \in {"helvetica", "font_swap", "size_changed"}

C28_TrackerCountsEditedRuns ==
    pc \in {"audit", "veto", "done"} =>
        \A i \in 1..Len(font_manager.requirements) :
            LET r == font_manager.requirements[i]
                edited == { k \in 1..Len(original_text_objects) :
                              /\ \E n \in 1..Len(processed_ids) :
                                     processed_ids[n]
                                     = original_text_objects[k].id
                              /\ original_text_objects[k].font_name
                                 = r.font_name }
            IN  /\ r.occurrences = Cardinality(edited)
                /\ { r.pages[n] : n \in 1..Len(r.pages) }
                   = { original_text_objects[k].page : k \in edited }

\* C29: when Strategy A's loop has ended, it has edited each pre-edit run
\* that held the search text exactly once: occurrences_processed is the
\* number of target ids, and the ids processed are the target ids, none of
\* them twice.
C29_EachTargetEditedOnce ==
    pc = "commit" =>
        /\ occurrences_processed = Cardinality(target_object_ids)
        /\ Len(processed_ids) = occurrences_processed
        /\ { processed_ids[n] : n \in 1..Len(processed_ids) }
           = target_object_ids

\* C30: when the operation has ended, by returning or by raising, none of
\* the files it made for itself is left: the working copy, the file the
\* document was saved to and Strategy B's side file are removed or were
\* moved to the output path.
C30_NoTemporaryFileLeft ==
    pc \in {"done", "failed"} =>
        \A p \in {working_temp_path, save_temp_path, pypdf_path("out"),
                  pypdf_path(save_temp_path)} :
            fs[p] = "none"

\* ------------------------------------------------------------------------
\* Properties of delete_pages
\* ------------------------------------------------------------------------
\* C23: delete_pages either raises InvalidPageError, when a requested number
\* is no page of the document, or saves a document with as many pages as the
\* original has less the number of distinct numbers requested; no requested
\* number is passed over.
C23_DeletePages ==
    LET requested == { page_numbers[i] : i \in 1..Len(page_numbers) }
    IN  pc \in {"deleted", "failed"} =>
            IF \E n \in requested : n \notin 1..doc_pages
            THEN pc = "failed" /\ outcome = "InvalidPageError"
            ELSE /\ pc = "deleted"
                 /\ Len(saved_doc) = doc_pages - Cardinality(requested)
                 /\ \A k \in 1..Len(saved_doc) :
                        saved_doc[k] + 1 \notin requested

\* ------------------------------------------------------------------------
\* Properties of detect_font_fallback
\* ------------------------------------------------------------------------
\* C12: a post-edit run whose x differs from the pre-edit run's x by more
\* than 2.0 points is never the match selected for that run, whatever its
\* content, y and size are.
C12_FarCandidateNeverSelected ==
    pc = "compared" =>
        LET targets == SelectSeq(original_text_objects, IsTargetObject)
            comparisons == engine_results[1].font_comparisons
            modified == extract_text_objects(doc_A)
        IN  \A k \in 1..Len(comparisons) :
                (k <= Len(targets) /\ comparisons[k].matched) =>
                    \A j \in 1..Len(modified) :
                        modified[j].id = comparisons[k].object_id =>
                            Abs(modified[j].x - targets[k].x) <= Pt(2)

\* A run more than 2.0 points away carries exactly the expected content of
\* the first target, and the comparison of that target has been made.
C12_Witness ==
    /\ pc = "compared"
    /\ Len(engine_results[1].font_comparisons) >= 1
    /\ LET targets == SelectSeq(original_text_objects, IsTargetObject)
           modified == extract_text_objects(doc_A)
       IN  \E j \in 1..Len(modified) :
               /\ modified[j].page = targets[1].page
               /\ Abs(modified[j].x - targets[1].x) > Pt(2)
               /\ modified[j].content
                  = expected_modified_content(targets[1].content,
                                              search_term, new_content)

\* C13: a target run whose counterpart after the edit is on the same page at
\* the same x and y and carries the expected new content gets a matched
\* comparison with a score of at least 30, never the result of no
\* correspondence.
C13_CounterpartMatched ==
    pc = "compared" =>
        LET targets == SelectSeq(original_text_objects, IsTargetObject)
            comparisons == engine_results[1].font_comparisons
            modified == extract_text_objects(doc_A)
        IN  \A k \in 1..Len(targets) :
                (\E j \in 1..Len(modified) :
                    /\ modified[j].page = targets[k].page
                    /\ modified[j].x = targets[k].x
                    /\ modified[j].y = targets[k].y
                    /\ modified[j].content = final_content(targets[k].content))
                => /\ k <= Len(comparisons)
                   /\ comparisons[k].matched
                   /\ comparisons[k].score >= 30
                   /\ comparisons[k].fallback_reason # "no_match"

\* The counterpart of the first target stands second in the snapshot, behind
\* a run that cannot be its match.
C13_Witness ==
    /\ pc = "compared"
    /\ Len(doc_A) = 2
    /\ LET targets == SelectSeq(original_text_objects, IsTargetObject)
           modified == extract_text_objects(doc_A)
       IN  /\ Len(targets) >= 1
           /\ modified[1].page # targets[1].page
           /\ modified[2].page = targets[1].page
           /\ modified[2].x = targets[1].x
           /\ modified[2].y = targets[1].y
           /\ modified[2].content = final_content(targets[1].content)
           /\ engine_results[1].font_comparisons[1].matched

\* C14: there is exactly one FontComparison for each pre-edit run whose id is
\* among the target ids, in their order, and a run for which no candidate
\* reaches the acceptance score is reported as not preserved, with a
\* fallback detected.
C14_OneComparisonPerTarget ==
    pc = "compared" =>
        LET targets == SelectSeq(original_text_objects, IsTargetObject)
            comparisons == engine_results[1].font_comparisons
            modified == extract_text_objects(doc_A)
        IN  /\ Len(comparisons) = Len(targets)
            /\ Len(comparisons) = Cardinality(target_object_ids)
            /\ \A k \in 1..Len(targets) :
                /\ comparisons[k].original_font = OrNA(targets[k].font_name)
                /\ comparisons[k].original_font_size = targets[k].font_size
                /\ (\A j \in 1..Len(modified) :
                        match_score(targets[k], modified[j], search_term,
                                    new_content) < MIN_SCORE)
                   => /\ ~comparisons[k].font_preserved
                      /\ comparisons[k].font_fallback_detected
                      /\ comparisons[k].object_id = targets[k].id

\* Two runs were edited; the snapshot holds a run for the first only, and it
\* holds a run too far from the second to be accepted.
C14_Witness ==
    /\ pc = "compared"
    /\ Len(engine_results[1].font_comparisons) = 2
    /\ Len(doc_A) >= 1
    /\ engine_results[1].font_comparisons[1].matched
    /\ ~engine_results[1].font_comparisons[2].matched
    /\ ~engine_results[1].font_comparisons[2].font_preserved

\* C15: for an accepted match, font_preserved is true exactly when the font
\* name and the font size after the edit equal those before it, and
\* font_fallback_detected is its negation.
C15_PreservedIffSameFont ==
    pc = "compared" =>
        LET targets == SelectSeq(original_text_objects, IsTargetObject)
            comparisons == engine_results[1].font_comparisons
            modified == extract_text_objects(doc_A)
        IN  \A k \in 1..Len(comparisons) :
                (k <= Len(targets) /\ comparisons[k].matched) =>
                    /\ comparisons[k].font_fallback_detected
                       = ~comparisons[k].font_preserved
                    /\ \A j \in 1..Len(modified) :
                        modified[j].id = comparisons[k].object_id =>
                            (comparisons[k].font_preserved
                             <=> /\ modified[j].font_name
                                    = targets[k].font_name
                                 /\ modified[j].font_size
                                    = targets[k].font_size)

\* An accepted match that kept the font name and changed the font size.
C15_Witness ==
    /\ pc = "compared"
    /\ \E k \in 1..Len(engine_results[1].font_comparisons) :
        LET c == engine_results[1].font_comparisons[k]
        IN  /\ c.matched
            /\ c.final_font = c.original_font
            /\ c.final_font_size # c.original_font_size
            /\ ~c.font_preserved
            /\ c.font_fallback_detected

\* C25: a candidate on the run's page and within 2.0 points in x is accepted
\* as the run's match only if its points reach 30, the points being 10 for
\* the same page, 20 or 10 for x, 15, 8 or 3 for y, 10, 5 or 0 for the size
\* and 30, 15, 10, 5 or 0 for the content; the match is the candidate with
\* the most points, the first one among equals, and a run none of whose
\* candidates reaches 30 has no match.
C25_ScoreWithPagePoints ==
    pc = "compared" =>
        LET targets == SelectSeq(original_text_objects, IsTargetObject)
            comparisons == engine_results[1].font_comparisons
            modified == extract_text_objects(doc_A)
            within(a, b, tol) == Abs(a - b) <= Pt(tol)
            candidate(o, m) == m.page = o.page /\ within(m.x, o.x, 2)
            points(o, m) ==
                LET expected == expected_modified_content(o.content,
                                    search_term, new_content)
                IN  (IF within(m.x, o.x, 1) THEN 20 ELSE 10)
                    + (IF within(m.y, o.y, 3) THEN 15
                       ELSE IF within(m.y, o.y, 6) THEN 8 ELSE 3)
                    + (IF within(m.width, o.width, 5)
                          /\ within(m.height, o.height, 5) THEN 10
                       ELSE IF within(m.width, o.width, 10)
                               /\ within(m.height, o.height, 10) THEN 5
                       ELSE 0)
                    + (IF expected # NoText
                       THEN IF m.content = expected THEN 30
                            ELSE IF Contains(m.content, expected)
                                    \/ Contains(expected, m.content) THEN 15
                            ELSE IF Contains(m.content, new_content) THEN 10
                            ELSE 0
                       ELSE IF m.content # o.content
                               /\ ~Contains(m.content, search_term) THEN 5
                       ELSE 0)
                    + 10
        IN  \A k \in 1..Len(comparisons) :
                k <= Len(targets) =>
                    IF comparisons[k].matched
                    THEN \E j \in 1..Len(modified) :
                            /\ modified[j].id = comparisons[k].object_id
                            /\ candidate(targets[k], modified[j])
                            /\ points(targets[k], modified[j]) >= 30
                            /\ \A i \in 1..Len(modified) :
                                candidate(targets[k], modified[i]) =>
                                    /\ points(targets[k], modified[i])
                                       <= points(targets[k], modified[j])
                                    /\ points(targets[k], modified[i])
                                       = points(targets[k], modified[j])
                                       => j <= i
                    ELSE \A i \in 1..Len(modified) :
                            candidate(targets[k], modified[i]) =>
                                points(targets[k], modified[i]) < 30

\* A match accepted with 38 points, 10 of them for the page.
C25_Witness ==
    /\ pc = "compared"
    /\ \E k \in 1..Len(engine_results[1].font_comparisons) :
        /\ engine_results[1].font_comparisons[k].matched
        /\ engine_results[1].font_comparisons[k].score \in 30..39

\* C25 as stated: the same, the points being those of x, y, size and content
\* only, with no other contribution.
C25_ScoreAsListed ==
    pc = "compared" =>
        LET targets == SelectSeq(original_text_objects, IsTargetObject)
            comparisons == engine_results[1].font_comparisons
            modified == extract_text_objects(doc_A)
            within(a, b, tol) == Abs(a - b) <= Pt(tol)
            candidate(o, m) == m.page = o.page /\ within(m.x, o.x, 2)
            points(o, m) ==
                LET expected == expected_modified_content(o.content,
                                    search_term, new_content)
                IN  (IF within(m.x, o.x, 1) THEN 20 ELSE 10)
                    + (IF within(m.y, o.y, 3) THEN 15
                       ELSE IF within(m.y, o.y, 6) THEN 8 ELSE 3)
                    + (IF within(m.width, o.width, 5)
                          /\ within(m.height, o.height, 5) THEN 10
                       ELSE IF within(m.width, o.width, 10)
                               /\ within(m.height, o.height, 10) THEN 5
                       ELSE 0)
                    + (IF expected # NoText
                       THEN IF m.content = expected THEN 30
                            ELSE IF Contains(m.content, expected)
                                    \/ Contains(expected, m.content) THEN 15
                            ELSE IF Contains(m.content, new_content) THEN 10
                            ELSE 0
                       ELSE IF m.content # o.content
                               /\ ~Contains(m.content, search_term) THEN 5
                       ELSE 0)
                    + 0
        IN  \A k \in 1..Len(comparisons) :
                k <= Len(targets) =>
                    IF comparisons[k].matched
                    THEN \E j \in 1..Len(modified) :
                            /\ modified[j].id = comparisons[k].object_id
                            /\ candidate(targets[k], modified[j])
                            /\ points(targets[k], modified[j]) >= 30
                            /\ \A i \in 1..Len(modified) :
                                candidate(targets[k], modified[i]) =>
                                    /\ points(targets[k], modified[i])
                                       <= points(targets[k], modified[j])
                                    /\ points(targets[k], modified[i])
                                       = points(targets[k], modified[j])
                                       => j <= i
                    ELSE \A i \in 1..Len(modified) :
                            candidate(targets[k], modified[i]) =>
                                points(targets[k], modified[i]) < 30

====
